---- MODULE Spec2Model ----
(***************************************************************************)
(* Vinyl Roulette: the canvas wheel (RouletteWheel.tsx) and the component  *)
(* that drives it (DiscogsRoulette.tsx).                                   *)
(*                                                                         *)
(* Angles are integers, TwoPi units to the full turn; TwoPi is chosen so   *)
(* that every arc, every half arc and the needle angle are whole units.    *)
(* Time is counted in ticks of half a second.  A requestAnimationFrame     *)
(* callback receives a timestamp FrameGap ticks after the previous one.    *)
(* One action is one event handler, timer or frame callback, followed by   *)
(* the render it causes and the effects of that render (state updates made *)
(* in one callback are batched into one render).                           *)
(***************************************************************************)
EXTENDS Integers, Sequences, FiniteSets, TLC

(* ------------------------------ bounds -------------------------------- *)
NumAlbums == 2          \* albums in the fetched collection
MaxSegments == 4        \* largest segment count the targeting is probed with
MaxStartSteps == 12     \* start rotations the targeting is probed with
MaxSpins == 2           \* spin sessions per behaviour
MaxFilterChanges == 1   \* genre-filter changes per behaviour
MaxQuickToggles == 2    \* genre-filter changes where only the filter is used
MaxUserChanges == 2     \* changes of the username per behaviour
MaxFreeTurns == 1       \* turns a continuous spin makes before it must stop
FrameGap == 2           \* ticks between two frames of a loop

(* ------------------------- program constants -------------------------- *)
StopDuration == 4          \* stopDuration = 2.0 (seconds)
NudgeDuration == 3         \* duration = 1500 (ms)
DownDuration == 3          \* downDuration = 1.5 (seconds)
BackDuration == 1          \* duration = 0.5 (seconds)
CanvasSize == 600          \* useState(600), the size at which scale = 1
OuterBorderWidth == 4      \* outerBorderWidth={4}
DiscMargin == 10           \* radius = ... - 10 * scale
ButtonRadius == 18         \* buttonRadius = 18 * scale
ButtonBottom == 60         \* buttonY = canvasHeight - 60 * scale
ButtonSpacing == 65        \* buttonSpacing = 65 * scale
ButtonRight == 40          \* rightEdge = canvasWidth - 40 * scale
PaddingRightPct == 30      \* tonearmPaddingRight = canvasSize * 0.30
PaddingTopPct == 15        \* tonearmPaddingTop = canvasSize * 0.15
DefaultSpinDuration == 8   \* let spinDuration = 4 (seconds)
TicksPerMinute == 120      \* rpm / 60 per second
SlowRpm == 33
FastRpm == 45

RECURSIVE Factorial(_)
Factorial(n) == IF n <= 1 THEN 1 ELSE n * Factorial(n - 1)

TwoPi == 24 * Factorial(MaxSegments)
NeedleAngle == TwoPi \div 12
\* getTonearmAngles: restAngle = Math.PI / 2; playingAngle = atan2(...) of
\* the 600 px canvas, 109.8 degrees
RestAngle == TwoPi \div 4
PlayingAngle == (61 * TwoPi) \div 200

\* the values Math.random() is sampled at
SpinDurationChoices == {9}                          \* 4 + Math.random() * 1
ExtraSpinsChoices == {3 * TwoPi + TwoPi \div 3}     \* (3 + Math.random() * 2) turns
NudgeChoices == {TwoPi \div 4}                      \* 30 + Math.random() * 90 degrees

Min(a, b) == IF a < b THEN a ELSE b

(* --------------------------- pure functions --------------------------- *)
\* JavaScript's % : the result takes the sign of the dividend
JsRem(a, b) == IF a >= 0 THEN a % b ELSE 0 - ((0 - a) % b)

ArcSize(numSegments) == TwoPi \div numSegments

RECURSIVE AddTurns(_, _)
AddTurns(target, bound) ==
  IF target < bound THEN AddTurns(target + TwoPi, bound) ELSE target

\* the centre of the segment taken on the wrong side of its leading edge
WinningSegmentAngleBefore(prize, numSegments) ==
  prize * ArcSize(numSegments) - ArcSize(numSegments) \div 2

WinningSegmentAngle(prize, numSegments) ==
  prize * ArcSize(numSegments) + ArcSize(numSegments) \div 2

\* whole turns added up to the start rotation only
TargetRotationNoExtra(start, prize, numSegments, extraSpins) ==
  AddTurns(NeedleAngle - WinningSegmentAngle(prize, numSegments), start)

TargetRotation(start, prize, numSegments, extraSpins) ==
  AddTurns(NeedleAngle - WinningSegmentAngle(prize, numSegments),
           start + extraSpins)

StoppedIndex(rot, numSegments) ==
  LET arcSize == ArcSize(numSegments)
      normalizedRot == JsRem(JsRem(rot, TwoPi) + TwoPi, TwoPi)
      relativeAngle ==
        JsRem(JsRem(NeedleAngle - normalizedRot, TwoPi) + TwoPi, TwoPi)
  IN JsRem(relativeAngle \div arcSize, numSegments)

\* start + (target - start) * easeInOut, t = e / d
EaseInOutRotation(start, target, e, d) ==
  IF 2 * e < d
  THEN start + ((target - start) * 4 * e * e * e) \div (d * d * d)
  ELSE target
         - ((target - start) * 4 * (d - e) * (d - e) * (d - e)) \div (d * d * d)

\* start + (target - start) * (1 - (1 - t)^3), t = e / d
EaseOutCubic(start, target, e, d) ==
  target - ((target - start) * (d - e) * (d - e) * (d - e)) \div (d * d * d)

\* easeOut = 1 - Math.pow(1 - t, 2), applied between two angles
EaseOutQuad(start, target, e, d) ==
  target - ((target - start) * (d - e) * (d - e)) \div (d * d)

Rpm(speed) == IF speed = "33" THEN SlowRpm ELSE FastRpm

\* rotationsPerSecond * 2 * Math.PI * deltaTime
FreeAdvance(speed, dt) == (Rpm(speed) * TwoPi * dt) \div TicksPerMinute

\* the same with rpm = currentSpeed * (1 - easeOut), easeOut = 1 - (1 - t)^2
StoppingAdvance(speed, se, dt) ==
  (Rpm(speed) * (StopDuration - se) * (StopDuration - se) * TwoPi * dt)
     \div (StopDuration * StopDuration * TicksPerMinute)

\* the fetched collection: album ids in order; every second album has no genre
Collection == [i \in 1..NumAlbums |-> i]
GenresOf(album) == IF album % 2 = 1 THEN {"rock"} ELSE {}
\* availableGenres
Genres == UNION {GenresOf(Collection[i]) : i \in 1..NumAlbums}

RECURSIVE SelectAlbums(_, _)
SelectAlbums(albums, genres) ==
  IF albums = << >> THEN << >>
  ELSE LET rest == SelectAlbums(Tail(albums), genres)
       IN IF GenresOf(Head(albums)) \cap genres # {}
          THEN << Head(albums) >> \o rest ELSE rest

\* the collection of another user: one album, which has no genre
OtherCollection == << 2 >>

FirstUser == "first"
OtherUser == "other"
Users == {FirstUser, OtherUser}
\* what fetchCollection(username) resolves to
CollectionOf(user) == IF user = FirstUser THEN Collection ELSE OtherCollection

FilterData(albums, genres) ==
  IF genres = {} THEN albums ELSE SelectAlbums(albums, genres)

RemoveAt(seq, i) == SubSeq(seq, 1, i - 1) \o SubSeq(seq, i + 1, Len(seq))

(* ------------------------------- state -------------------------------- *)
VARIABLES
  \* DiscogsRoulette
  data, selectedGenres, filteredData, prevFilteredLength,
  mustSpin, isRouletteMode, prizeNumber, isManualStop,
  isWheelTransitioning, transitionTimers, selectedAlbum, spinSpeed,
  isModalOpen, modalTimers, shouldResetTonearm,
  selectedAlbumDetails, isLoadingDetails, detailRequests,
  username, isConfigured, loading, error, collectionRequests,
  \* loops of wheels that have been unmounted
  orphans, userChanges,
  \* RouletteWheel
  rotation, isSpinning, isStoppingManually, startRotation,
  shouldStopRef, isRouletteModeRef, spinSpeedRef,
  closure, elapsed, stopElapsed, animateFrames, nudges,
  tonearmAngle, tonearmAnimating, tonearmElapsed, tonearmDownFrames,
  tonearmBackFrames,
  \* observation of the run
  lastOp, spinCount, filterChanges, spinLog, lastCallback, lastWriter,
  resetAtRest,
  \* the targeting probe and the hit-test probe
  probe, hit

parentVars == << data, selectedGenres, filteredData, prevFilteredLength,
                 mustSpin, isRouletteMode, prizeNumber, isManualStop,
                 isWheelTransitioning, transitionTimers, selectedAlbum,
                 spinSpeed, isModalOpen, modalTimers, shouldResetTonearm,
                 selectedAlbumDetails, isLoadingDetails, detailRequests,
                 username, isConfigured, loading, error, collectionRequests,
                 orphans, userChanges >>
wheelVars == << rotation, isSpinning, isStoppingManually, startRotation,
                shouldStopRef, isRouletteModeRef, spinSpeedRef,
                closure, elapsed, stopElapsed, animateFrames, nudges,
                tonearmAngle, tonearmAnimating, tonearmElapsed,
                tonearmDownFrames, tonearmBackFrames >>
vars == << parentVars, wheelVars, lastOp, spinCount, filterChanges, spinLog,
           lastCallback, lastWriter, resetAtRest, probe, hit >>

\* what the animate closure of a session captured from its render
NoClosure == [targetRotation |-> 0, spinDuration |-> 0, rotation |-> 0,
              data |-> << >>, prizeNumber |-> 0]
NoLog == [mode |-> "none", rouletteCompletes |-> 0, stopCompletes |-> 0,
          stopRequested |-> FALSE, engages |-> 0]
NoCallback == [name |-> "none", sawSpinning |-> FALSE, sawStopping |-> FALSE,
               sawRotation |-> 0, index |-> 0, segments |-> 0,
               unmounted |-> FALSE]
NoProbe == [start |-> 0, segments |-> 1, prize |-> 0, extraSpins |-> 0,
            target |-> 0, index |-> 0, done |-> FALSE]

InitProgram ==
  /\ data = << >> /\ selectedGenres = {} /\ filteredData = << >>
  /\ prevFilteredLength = 0
  /\ mustSpin = FALSE /\ isRouletteMode = FALSE /\ prizeNumber = 0
  /\ isManualStop = FALSE /\ isWheelTransitioning = FALSE
  /\ transitionTimers = 0 /\ selectedAlbum = 0 /\ spinSpeed = "33"
  /\ isModalOpen = FALSE /\ modalTimers = 0 /\ shouldResetTonearm = FALSE
  /\ selectedAlbumDetails = 0 /\ isLoadingDetails = FALSE
  /\ detailRequests = {}
  /\ username = FirstUser /\ isConfigured = TRUE /\ loading = TRUE
  /\ error = FALSE /\ collectionRequests = {FirstUser}
  /\ orphans = << >> /\ userChanges = 0
  /\ rotation = 0 /\ isSpinning = FALSE /\ isStoppingManually = FALSE
  /\ startRotation = 0 /\ shouldStopRef = FALSE /\ isRouletteModeRef = FALSE
  /\ spinSpeedRef = "33" /\ closure = NoClosure /\ elapsed = 0
  /\ stopElapsed = 0 /\ animateFrames = 0 /\ nudges = << >>
  /\ tonearmAngle = RestAngle /\ tonearmAnimating = FALSE
  /\ tonearmElapsed = 0 /\ tonearmDownFrames = 0 /\ tonearmBackFrames = 0
  /\ lastOp = "other" /\ spinCount = 0 /\ filterChanges = 0
  /\ spinLog = NoLog /\ lastCallback = NoCallback /\ lastWriter = "none"
  /\ resetAtRest = FALSE

NoHit == [x |-> 0, y |-> 0, border |-> 0, spinning |-> FALSE,
          stopping |-> FALSE, intents |-> << >>, done |-> FALSE]

Init == InitProgram /\ probe = NoProbe /\ hit = NoHit

(* ------------------- RouletteWheel: render and effects ---------------- *)
\* the refs and loops of the wheel as the running callback leaves them,
\* before the render it causes
Cur == [rotation |-> rotation, isSpinning |-> isSpinning,
        animateFrames |-> animateFrames, elapsed |-> elapsed,
        nudges |-> nudges, spinLog |-> spinLog,
        tonearmAnimating |-> tonearmAnimating,
        tonearmElapsed |-> tonearmElapsed,
        tonearmDownFrames |-> tonearmDownFrames,
        tonearmBackFrames |-> tonearmBackFrames,
        resized |-> FALSE]

LogLast(field, value) == [spinLog EXCEPT ![field] = value]

\* the guard without its test of isSpinning.current
SpinGuardNoSessionTest(mustStartSpinning, spinning, dataLength) ==
  mustStartSpinning /\ dataLength > 0

SpinGuard(mustStartSpinning, spinning, dataLength) ==
  mustStartSpinning /\ ~spinning /\ dataLength > 0

\* a session that re-bases the wheel: startRotation.current = 0
SessionStartRotationZero(rot) == 0

\* the rotation a new session starts from: startRotation.current = rotation
SessionStartRotation(rot) == rot

\* the tonearm block placed outside the start guard of the spin effect
EngageGuardAnyRender(starting, mustStartSpinning, animating) ==
  mustStartSpinning /\ ~animating

\* the tonearm block of the spin effect: inside the start guard,
\* if (!tonearmAnimating.current)
EngageGuard(starting, mustStartSpinning, animating) ==
  starting /\ ~animating

\* a reset that does not look at tonearmAnimating.current
ResetGuardNoGate(resetTonearm, animating) == resetTonearm

\* if (resetTonearm && !tonearmAnimating.current)
ResetGuard(resetTonearm, animating) == resetTonearm /\ ~animating

\* the tonearm loops a render starts: the block of the spin effect, then
\* the resetTonearm effect, which runs when resetTonearm or getTonearmAngles
\* (on a resize) has changed
TonearmEffects(m) ==
  LET starting == SpinGuard(mustSpin', m.isSpinning, Len(filteredData'))
      down == EngageGuard(starting, mustSpin', m.tonearmAnimating)
      back == /\ shouldResetTonearm' # shouldResetTonearm \/ m.resized
              /\ ResetGuard(shouldResetTonearm', m.tonearmAnimating \/ down)
  IN /\ tonearmAnimating' = (m.tonearmAnimating \/ down \/ back)
     /\ tonearmElapsed' = IF down \/ back THEN 0 ELSE m.tonearmElapsed
     /\ tonearmDownFrames' = m.tonearmDownFrames + IF down THEN 1 ELSE 0
     /\ tonearmBackFrames' = m.tonearmBackFrames + IF back THEN 1 ELSE 0
     \* whether the reset last signalled found the tonearm resting
     /\ resetAtRest' =
          IF starting THEN FALSE
          ELSE IF /\ shouldResetTonearm' # shouldResetTonearm \/ m.resized
                  /\ shouldResetTonearm'
                  /\ tonearmAngle = RestAngle /\ ~m.tonearmAnimating
               THEN TRUE ELSE resetAtRest

\* useEffect [mustStartSpinning, prizeNumber, data.length, rotation, ...]
SpinEffect(m) ==
  IF SpinGuard(mustSpin', m.isSpinning, Len(filteredData'))
  THEN \E extraSpins \in ExtraSpinsChoices,
          spinDuration \in SpinDurationChoices :
         /\ isSpinning' = TRUE
         /\ startRotation' = SessionStartRotation(m.rotation)
         /\ elapsed' = 0
         /\ closure' =
              [targetRotation |->
                 IF isRouletteModeRef'
                 THEN TargetRotation(startRotation', prizeNumber',
                                     Len(filteredData'), extraSpins)
                 ELSE 0,
               spinDuration |->
                 IF isRouletteModeRef' THEN spinDuration
                 ELSE DefaultSpinDuration,
               rotation |-> m.rotation,
               data |-> filteredData',
               prizeNumber |-> prizeNumber']
         /\ animateFrames' = m.animateFrames + 1
         /\ spinCount' = spinCount + 1
         /\ spinLog' =
              [mode |-> IF isRouletteModeRef' THEN "roulette" ELSE "cosmetic",
               rouletteCompletes |-> 0, stopCompletes |-> 0,
               stopRequested |-> FALSE,
               engages |-> IF EngageGuard(TRUE, mustSpin', m.tonearmAnimating)
                           THEN 1 ELSE 0]
  ELSE /\ isSpinning' = m.isSpinning
       /\ elapsed' = m.elapsed
       /\ animateFrames' = m.animateFrames
       /\ spinLog' = [m.spinLog EXCEPT !.engages =
                        IF EngageGuard(FALSE, mustSpin', m.tonearmAnimating)
                        THEN @ + 1 ELSE @]
       /\ UNCHANGED << startRotation, closure, spinCount >>

\* a nudge that does not look at isSpinning.current
NudgeGuardNoSessionTest(filterTransition, spinning) == filterTransition

NudgeGuard(filterTransition, spinning) == filterTransition /\ ~spinning

\* useEffect [filterTransition]
FilterTransitionEffect(m) ==
  IF isWheelTransitioning' # isWheelTransitioning
     /\ NudgeGuard(isWheelTransitioning', isSpinning')
  THEN \E angle \in NudgeChoices :
         nudges' = Append(m.nudges, [startRot |-> m.rotation,
                                     targetRot |-> m.rotation + angle,
                                     elapsed |-> 0])
  ELSE nudges' = m.nudges

\* one render of the wheel with the caller's new props, then its effects in
\* the order they are declared
WheelRender(m) ==
  /\ rotation' = m.rotation
  /\ shouldStopRef' = isManualStop'
  /\ spinSpeedRef' = spinSpeed'
  /\ isRouletteModeRef' = isRouletteMode'
  /\ SpinEffect(m)
  /\ TonearmEffects(m)
  /\ FilterTransitionEffect(m)
  /\ UNCHANGED << probe, hit >>

\* what a callback of the caller leaves alone in the wheel
\* what a callback leaves alone that neither selects an album nor loads a
\* collection
NoDetails ==
  UNCHANGED << selectedAlbumDetails, isLoadingDetails, detailRequests >>
NoUserChange ==
  UNCHANGED << username, isConfigured, loading, error, collectionRequests,
               orphans, userChanges >>

NoFrame ==
  UNCHANGED << isStoppingManually, stopElapsed, tonearmAngle, lastCallback,
               lastWriter >>

(* ------------------- RouletteWheel: handleCanvasClick ----------------- *)
\* the layout of the draw pass at scale 1
CanvasWidth == CanvasSize + (CanvasSize * PaddingRightPct) \div 100
CanvasHeight == CanvasSize + (CanvasSize * PaddingTopPct) \div 100
ButtonY == CanvasHeight - ButtonBottom
StartButtonX == CanvasWidth - ButtonRight
StopButtonX == StartButtonX - ButtonSpacing
SpeedButtonX == StartButtonX - 2 * ButtonSpacing

\* the disc as handleCanvasClick takes it
HitCenterX == CanvasSize \div 2
HitCenterY == CanvasSize \div 2
HitRadius(border) == HitCenterX - border - DiscMargin

\* Math.sqrt(dx * dx + dy * dy) <= radius, for whole coordinates
Within(x, y, cx, cy, radius) ==
  radius >= 0 /\ (x - cx) * (x - cx) + (y - cy) * (y - cy) <= radius * radius

InSpeed(x, y) == Within(x, y, SpeedButtonX, ButtonY, ButtonRadius)
InStop(x, y) == Within(x, y, StopButtonX, ButtonY, ButtonRadius)
InStart(x, y) == Within(x, y, StartButtonX, ButtonY, ButtonRadius)
InDisc(x, y, border) == Within(x, y, HitCenterX, HitCenterY, HitRadius(border))

\* drawWheel: the disc as the render pass draws it
DrawCenterX == CanvasSize \div 2
DrawCenterY == CanvasSize \div 2 + (CanvasSize * PaddingTopPct) \div 100
DrawRadius(border) == Min(DrawCenterX, DrawCenterY) - border - DiscMargin
InDrawnDisc(x, y, border) ==
  Within(x, y, DrawCenterX, DrawCenterY, DrawRadius(border))

\* a speed button that takes hits during a spin
SpeedEnabledAlways(mustStartSpinning) == TRUE

\* the conditions next to each distance test
SpeedEnabled(mustStartSpinning) == ~mustStartSpinning
StopEnabled(mustStartSpinning, stopping) == mustStartSpinning /\ ~stopping
StartEnabled(mustStartSpinning) == ~mustStartSpinning

\* a disc that takes hits during a spin
DiscEnabledAlways(mustStartSpinning) == TRUE

DiscEnabled(mustStartSpinning) == ~mustStartSpinning

\* the callbacks of the caller one release invokes, in order
CanvasIntents(x, y, border, mustStartSpinning, stopping) ==
  IF InSpeed(x, y) /\ SpeedEnabled(mustStartSpinning) THEN << "speed" >>
  ELSE IF InStop(x, y) /\ StopEnabled(mustStartSpinning, stopping)
  THEN << "stop" >>
  ELSE IF InStart(x, y) /\ StartEnabled(mustStartSpinning) THEN << "start" >>
  ELSE IF InDisc(x, y, border) /\ DiscEnabled(mustStartSpinning)
  THEN << "wheel" >>
  ELSE << >>

(* --------------------- DiscogsRoulette: handlers ---------------------- *)
\* the wheel is rendered once the collection is there
\* RouletteWheel is rendered: none of the early returns of DiscogsRoulette
Mounted == isConfigured /\ ~loading /\ ~error /\ data # << >>

\* loadCollection resolves; the genre-filter effect runs on the new data
\* the refs and loops of a wheel that has just been mounted; every effect
\* runs on the first render
MountCur == [rotation |-> 0, isSpinning |-> FALSE, animateFrames |-> 0,
             elapsed |-> 0, nudges |-> << >>, spinLog |-> NoLog,
             tonearmAnimating |-> FALSE, tonearmElapsed |-> 0,
             tonearmDownFrames |-> 0, tonearmBackFrames |-> 0,
             resized |-> TRUE]

\* the genre filter effect for a collection and a selection of genres
FilterEffect(albums, genres) ==
  LET newFilteredData == FilterData(albums, genres) IN
  /\ IF prevFilteredLength # 0 /\ prevFilteredLength # Len(newFilteredData)
     THEN /\ isWheelTransitioning' = TRUE
          /\ transitionTimers' = transitionTimers + 1
     ELSE UNCHANGED << isWheelTransitioning, transitionTimers >>
  /\ prevFilteredLength' = Len(newFilteredData)
  /\ filteredData' = newFilteredData

\* what a render of the wheel assigns, left as it is
NoRender ==
  UNCHANGED << rotation, isSpinning, startRotation, shouldStopRef,
               isRouletteModeRef, spinSpeedRef, closure, elapsed,
               animateFrames, nudges, tonearmAnimating, tonearmElapsed,
               tonearmDownFrames, tonearmBackFrames, spinCount, spinLog,
               resetAtRest, probe, hit >>

\* the render a change of the caller's state causes, if the wheel is there
Render == IF Mounted THEN WheelRender(Cur) ELSE NoRender

\* the wheel leaves the page: its refs and state are gone, the frames its
\* loops have requested are not cancelled; the animate loop of a session
\* goes on with what it captured
WheelUnmount ==
  /\ orphans' = IF isSpinning /\ animateFrames > 0
                THEN Append(orphans,
                            [roulette |-> isRouletteModeRef,
                             closure |-> closure,
                             stopping |-> shouldStopRef \/ isStoppingManually])
                ELSE orphans
  /\ rotation' = 0 /\ isSpinning' = FALSE /\ isStoppingManually' = FALSE
  /\ startRotation' = 0 /\ closure' = NoClosure /\ elapsed' = 0
  /\ stopElapsed' = 0 /\ animateFrames' = 0 /\ nudges' = << >>
  /\ tonearmAngle' = RestAngle /\ tonearmAnimating' = FALSE
  /\ tonearmElapsed' = 0 /\ tonearmDownFrames' = 0
  /\ tonearmBackFrames' = 0
  /\ UNCHANGED << shouldStopRef, isRouletteModeRef, spinSpeedRef, spinCount,
                  spinLog, resetAtRest, probe, hit >>

\* a new wheel is rendered for the first time
WheelMount ==
  /\ isStoppingManually' = FALSE
  /\ stopElapsed' = 0
  /\ tonearmAngle' = RestAngle
  /\ WheelRender(MountCur)

\* the wheel after a change of what DiscogsRoulette returns
WheelAfter ==
  IF Mounted /\ Mounted'
  THEN /\ UNCHANGED << isStoppingManually, stopElapsed, tonearmAngle,
                       orphans >>
       /\ WheelRender(Cur)
  ELSE IF Mounted THEN WheelUnmount
  ELSE IF Mounted' THEN WheelMount /\ UNCHANGED orphans
  ELSE /\ UNCHANGED << isStoppingManually, stopElapsed, tonearmAngle,
                       orphans >>
       /\ NoRender

\* loadCollection: fetchCollection(user) has resolved
CollectionResponse(user) ==
  /\ user \in collectionRequests
  /\ collectionRequests' = collectionRequests \ {user}
  /\ lastOp' = "other"
  /\ data' = CollectionOf(user)
  /\ FilterEffect(CollectionOf(user), selectedGenres)
  /\ error' = FALSE
  /\ loading' = FALSE
  /\ UNCHANGED << username, isConfigured, userChanges >>
  /\ UNCHANGED << isModalOpen, modalTimers, shouldResetTonearm >>
  /\ UNCHANGED << selectedGenres, mustSpin, isRouletteMode, prizeNumber,
                  isManualStop, selectedAlbum, spinSpeed, filterChanges >>
  /\ NoDetails
  /\ UNCHANGED << lastCallback, lastWriter >>
  /\ WheelAfter

\* loadCollection: fetchCollection(user) has failed
CollectionFailure(user) ==
  /\ user \in collectionRequests
  /\ collectionRequests' = collectionRequests \ {user}
  /\ lastOp' = "other"
  /\ error' = TRUE
  /\ loading' = FALSE
  /\ UNCHANGED << username, isConfigured, userChanges >>
  /\ UNCHANGED << isModalOpen, modalTimers, shouldResetTonearm >>
  /\ UNCHANGED << data, selectedGenres, filteredData, prevFilteredLength,
                  mustSpin, isRouletteMode, prizeNumber, isManualStop,
                  isWheelTransitioning, transitionTimers, selectedAlbum,
                  spinSpeed, filterChanges >>
  /\ NoDetails
  /\ UNCHANGED << lastCallback, lastWriter >>
  /\ WheelAfter

\* the collection of the first page arrives
LoadCollection == data = << >> /\ CollectionResponse(username)

\* useEffect [selectedGenres, data]
GenreFilterEffect(genres) ==
  LET newFilteredData == FilterData(data, genres) IN
  /\ IF prevFilteredLength # 0 /\ prevFilteredLength # Len(newFilteredData)
     THEN /\ isWheelTransitioning' = TRUE
          /\ transitionTimers' = transitionTimers + 1
     ELSE UNCHANGED << isWheelTransitioning, transitionTimers >>
  /\ prevFilteredLength' = Len(newFilteredData)
  /\ filteredData' = newFilteredData

\* a genre tag is clicked
\* the genres of a collection, whose tags the filter panel shows
AvailableGenres(albums) == UNION {GenresOf(albums[i]) : i \in DOMAIN albums}

\* a genre tag is clicked: handleGenreToggle, then the genre filter effect
GenreToggle(genre) ==
  /\ NoDetails /\ NoUserChange
  /\ Mounted
  /\ genre \in AvailableGenres(data)
  /\ filterChanges' = filterChanges + 1
  /\ lastOp' = "other"
  /\ selectedGenres' = IF genre \in selectedGenres
                       THEN selectedGenres \ {genre}
                       ELSE selectedGenres \cup {genre}
  /\ GenreFilterEffect(selectedGenres')
  /\ UNCHANGED << isModalOpen, modalTimers, shouldResetTonearm >>
  /\ UNCHANGED << data, mustSpin, isRouletteMode, prizeNumber, isManualStop,
                  selectedAlbum, spinSpeed >>
  /\ NoFrame
  /\ WheelRender(Cur)

handleGenreToggle(genre) ==
  /\ filterChanges < MaxFilterChanges
  /\ GenreToggle(genre)

\* setTimeout(() => setIsWheelTransitioning(false), 400)
TransitionTimeout ==
  /\ NoDetails /\ NoUserChange
  /\ transitionTimers > 0
  /\ lastOp' = "other"
  /\ transitionTimers' = transitionTimers - 1
  /\ isWheelTransitioning' = FALSE
  /\ UNCHANGED << isModalOpen, modalTimers, shouldResetTonearm >>
  /\ UNCHANGED << data, selectedGenres, filteredData, prevFilteredLength,
                  mustSpin, isRouletteMode, prizeNumber, isManualStop,
                  selectedAlbum, spinSpeed, filterChanges >>
  /\ NoFrame
  /\ Render

\* START accepted on an empty wheel
handleStartClickNoLengthTest ==
  IF ~mustSpin
  THEN /\ isRouletteMode' = FALSE
       /\ mustSpin' = TRUE
       /\ shouldResetTonearm' = FALSE
       /\ isManualStop' = FALSE
  ELSE UNCHANGED << isRouletteMode, mustSpin, shouldResetTonearm,
                    isManualStop >>

handleStartClick ==
  IF ~mustSpin /\ Len(filteredData) > 0
  THEN /\ isRouletteMode' = FALSE
       /\ mustSpin' = TRUE
       /\ shouldResetTonearm' = FALSE
       /\ isManualStop' = FALSE
  ELSE UNCHANGED << isRouletteMode, mustSpin, shouldResetTonearm,
                    isManualStop >>

handleWheelClick ==
  IF ~mustSpin /\ Len(filteredData) > 0
  THEN \E newPrizeNumber \in 0..(Len(filteredData) - 1) :
         /\ prizeNumber' = newPrizeNumber
         /\ isRouletteMode' = TRUE
         /\ mustSpin' = TRUE
         /\ selectedAlbum' = 0
         /\ selectedAlbumDetails' = 0
         /\ isModalOpen' = FALSE
         /\ shouldResetTonearm' = FALSE
         /\ isManualStop' = FALSE
         /\ isLoadingDetails' = TRUE
         /\ detailRequests' =
              detailRequests \cup {filteredData[newPrizeNumber + 1]}
  ELSE /\ UNCHANGED << prizeNumber, isRouletteMode, mustSpin, selectedAlbum,
                       isModalOpen, shouldResetTonearm, isManualStop >>
       /\ NoDetails

\* a stop accepted in either mode
handleStopClickAnyMode ==
  IF mustSpin /\ ~isManualStop
  THEN /\ isManualStop' = TRUE
       /\ WheelRender([Cur EXCEPT !.spinLog = LogLast("stopRequested", TRUE)])
  ELSE /\ UNCHANGED isManualStop
       /\ WheelRender(Cur)

handleStopClick ==
  IF mustSpin /\ ~isManualStop /\ ~isRouletteMode
  THEN /\ isManualStop' = TRUE
       /\ WheelRender([Cur EXCEPT !.spinLog = LogLast("stopRequested", TRUE)])
  ELSE /\ UNCHANGED isManualStop
       /\ WheelRender(Cur)

handleSpeedToggle == spinSpeed' = IF spinSpeed = "33" THEN "45" ELSE "33"

\* release on the START button: handleCanvasClick, then onStartClick
ClickStart ==
  /\ NoDetails /\ NoUserChange
  /\ Mounted /\ (mustSpin \/ spinCount < MaxSpins)
  /\ lastOp' = "start"
  /\ IF StartEnabled(mustSpin) THEN handleStartClick
     ELSE UNCHANGED << isRouletteMode, mustSpin, shouldResetTonearm,
                       isManualStop >>
  /\ UNCHANGED << isModalOpen, modalTimers >>
  /\ UNCHANGED << data, selectedGenres, filteredData, prevFilteredLength,
                  prizeNumber, isWheelTransitioning, transitionTimers,
                  selectedAlbum, spinSpeed, filterChanges >>
  /\ NoFrame
  /\ WheelRender(Cur)

\* release on the disc: handleCanvasClick, then onWheelClick
ClickWheel ==
  /\ NoUserChange
  /\ Mounted /\ (mustSpin \/ spinCount < MaxSpins)
  /\ lastOp' = "start"
  /\ IF DiscEnabled(mustSpin) THEN handleWheelClick
     ELSE /\ UNCHANGED << prizeNumber, isRouletteMode, mustSpin,
                          selectedAlbum, isModalOpen, shouldResetTonearm,
                          isManualStop >>
          /\ NoDetails
  /\ UNCHANGED modalTimers
  /\ UNCHANGED << data, selectedGenres, filteredData, prevFilteredLength,
                  isWheelTransitioning, transitionTimers, spinSpeed,
                  filterChanges >>
  /\ NoFrame
  /\ WheelRender(Cur)

\* Space: handleKeyPress, then handleWheelClick
PressSpace ==
  /\ NoUserChange
  /\ Mounted /\ (mustSpin \/ spinCount < MaxSpins)
  /\ lastOp' = "start"
  /\ IF ~mustSpin /\ Len(filteredData) > 0 /\ ~isModalOpen
     THEN handleWheelClick
     ELSE /\ UNCHANGED << prizeNumber, isRouletteMode, mustSpin,
                          selectedAlbum, isModalOpen, shouldResetTonearm,
                          isManualStop >>
          /\ NoDetails
  /\ UNCHANGED modalTimers
  /\ UNCHANGED << data, selectedGenres, filteredData, prevFilteredLength,
                  isWheelTransitioning, transitionTimers, spinSpeed,
                  filterChanges >>
  /\ NoFrame
  /\ WheelRender(Cur)

\* release on the STOP button: handleCanvasClick, then onStopClick
ClickStop ==
  /\ NoDetails /\ NoUserChange
  /\ Mounted
  /\ lastOp' = "other"
  /\ UNCHANGED << isModalOpen, modalTimers, shouldResetTonearm >>
  /\ UNCHANGED << data, selectedGenres, filteredData, prevFilteredLength,
                  mustSpin, isRouletteMode, prizeNumber, isWheelTransitioning,
                  transitionTimers, selectedAlbum, spinSpeed, filterChanges >>
  /\ NoFrame
  /\ IF StopEnabled(mustSpin, isStoppingManually) THEN handleStopClick
     ELSE /\ UNCHANGED isManualStop
          /\ WheelRender(Cur)

\* release on the SPEED button: handleCanvasClick, then onSpeedToggle
ClickSpeed ==
  /\ NoDetails /\ NoUserChange
  /\ Mounted
  /\ lastOp' = "other"
  /\ IF SpeedEnabled(mustSpin) THEN handleSpeedToggle
     ELSE UNCHANGED spinSpeed
  /\ UNCHANGED << isModalOpen, modalTimers, shouldResetTonearm >>
  /\ UNCHANGED << data, selectedGenres, filteredData, prevFilteredLength,
                  mustSpin, isRouletteMode, prizeNumber, isManualStop,
                  isWheelTransitioning, transitionTimers, selectedAlbum,
                  filterChanges >>
  /\ NoFrame
  /\ WheelRender(Cur)

(* ------------------- RouletteWheel: animation frames ------------------ *)
\* onRouletteComplete as the session captured it
handleRouletteCompleteOf(captured) ==
  /\ mustSpin' = FALSE
  /\ selectedAlbum' = IF captured.prizeNumber + 1 \in DOMAIN captured.data
                      THEN captured.data[captured.prizeNumber + 1] ELSE 0
  /\ modalTimers' = modalTimers + 1
  /\ UNCHANGED << isManualStop, isRouletteMode, prizeNumber, isModalOpen,
                  shouldResetTonearm >>

handleRouletteComplete == handleRouletteCompleteOf(closure)

\* the callback invoked first, the snap and the flag after it
RouletteDoneOrderCallbackFirst ==
  [rotation |-> rotation, isSpinning |-> isSpinning]

\* what the completion callback is entered with: the rotation last passed
\* to setRotation and the session flag, as the statements before the call
\* left them
RouletteDoneOrder == [rotation |-> closure.targetRotation, isSpinning |-> FALSE]

\* the completion branch of animate: spinning is the session flag it
\* leaves, frames the callbacks of the loop that stay scheduled
RouletteComplete(e, spinning, frames) ==
  /\ NoDetails
  /\ lastCallback' = [NoCallback EXCEPT !.name = "rouletteComplete",
                        !.sawSpinning = RouletteDoneOrder.isSpinning,
                        !.sawRotation = RouletteDoneOrder.rotation,
                        !.segments = Len(filteredData)]
  /\ lastWriter' = "animate"
  /\ handleRouletteComplete
  /\ UNCHANGED << isStoppingManually, stopElapsed >>
  /\ WheelRender([Cur EXCEPT !.rotation = closure.targetRotation,
                             !.isSpinning = spinning,
                             !.elapsed = e,
                             !.animateFrames = frames,
                             !.spinLog = LogLast("rouletteCompletes",
                                           spinLog.rouletteCompletes + 1)])

\* a completion branch that falls through to requestAnimationFrame(animate)
\* with the session flag still set
RouletteDoneFallThrough(e) == RouletteComplete(e, TRUE, animateFrames)

\* roulette branch, elapsed >= spinDuration
RouletteDone(e) == RouletteComplete(e, FALSE, animateFrames - 1)

\* roulette branch, elapsed < spinDuration
RouletteStep(e) ==
  /\ NoDetails
  /\ lastWriter' = "animate"
  /\ UNCHANGED << isModalOpen, modalTimers, shouldResetTonearm,
                  mustSpin, selectedAlbum, isManualStop, isRouletteMode,
                  prizeNumber, lastCallback, isStoppingManually, stopElapsed >>
  /\ WheelRender([Cur EXCEPT !.rotation =
                      EaseInOutRotation(startRotation, closure.targetRotation,
                                        e, closure.spinDuration),
                    !.elapsed = e])

AnimateRoulette(dt) ==
  LET e == Min(elapsed + dt, closure.spinDuration) IN
  IF e < closure.spinDuration THEN RouletteStep(e) ELSE RouletteDone(e)

\* onStopComplete as the session captured it
handleStopCompleteOf(captured, stoppedIndex) ==
  /\ mustSpin' = FALSE
  /\ isManualStop' = FALSE
  /\ isRouletteMode' = FALSE
  /\ IF Len(captured.data) > 0 /\ stoppedIndex >= 0
        /\ stoppedIndex < Len(captured.data)
     THEN /\ selectedAlbum' = captured.data[stoppedIndex + 1]
          /\ prizeNumber' = stoppedIndex
          /\ isLoadingDetails' = TRUE
          /\ detailRequests' =
               detailRequests \cup {captured.data[stoppedIndex + 1]}
          /\ UNCHANGED selectedAlbumDetails
          /\ modalTimers' = modalTimers + 1
     ELSE /\ UNCHANGED << selectedAlbum, prizeNumber, modalTimers >>
          /\ NoDetails
  /\ UNCHANGED << isModalOpen, shouldResetTonearm >>

handleStopComplete(stoppedIndex) ==
  handleStopCompleteOf(closure, stoppedIndex)

\* `rotation` and `data.length` as animate reads them: the values of the
\* render in which the session's effect ran
RotationRead == closure.rotation
SegmentsRead == Len(closure.data)

\* gradual stop, stopElapsed >= stopDuration
StopDone ==
  /\ isStoppingManually' = FALSE
  /\ stopElapsed' = StopDuration
  /\ UNCHANGED lastWriter
  /\ IF SegmentsRead > 0
     THEN LET stoppedIndex == StoppedIndex(RotationRead, SegmentsRead) IN
          /\ lastCallback' = [name |-> "stopComplete", sawSpinning |-> FALSE,
                              sawStopping |-> FALSE, sawRotation |-> rotation,
                              index |-> stoppedIndex,
                              segments |-> Len(filteredData),
                              unmounted |-> FALSE]
          /\ handleStopComplete(stoppedIndex)
          /\ WheelRender([Cur EXCEPT !.isSpinning = FALSE,
                            !.animateFrames = animateFrames - 1,
                            !.spinLog = LogLast("stopCompletes",
                                          spinLog.stopCompletes + 1)])
     ELSE /\ UNCHANGED << lastCallback, mustSpin, isManualStop, isRouletteMode,
                          isModalOpen, modalTimers, shouldResetTonearm,
                          selectedAlbum, prizeNumber >>
          /\ NoDetails
          /\ WheelRender([Cur EXCEPT !.isSpinning = FALSE,
                            !.animateFrames = animateFrames - 1])

\* gradual stop, stopElapsed < stopDuration
StopStep(se, dt) ==
  /\ NoDetails
  /\ isStoppingManually' = TRUE
  /\ stopElapsed' = se
  /\ lastWriter' = "animate"
  /\ UNCHANGED << isModalOpen, modalTimers, shouldResetTonearm,
                  mustSpin, selectedAlbum, isManualStop, isRouletteMode,
                  prizeNumber, lastCallback >>
  /\ WheelRender([Cur EXCEPT !.rotation =
                      rotation + StoppingAdvance(spinSpeedRef, se, dt)])

\* continuous rotation at the selected RPM
FreeStep(dt) ==
  /\ NoDetails
  /\ rotation < startRotation + MaxFreeTurns * TwoPi
  /\ lastWriter' = "animate"
  /\ UNCHANGED << isModalOpen, modalTimers, shouldResetTonearm,
                  mustSpin, selectedAlbum, isManualStop, isRouletteMode,
                  prizeNumber, lastCallback, isStoppingManually, stopElapsed >>
  /\ WheelRender([Cur EXCEPT !.rotation =
                      rotation + FreeAdvance(spinSpeedRef, dt)])

\* a loop that never notices the stop request
StopTriggerNever == FALSE

\* a trigger that does not look at shouldStopRef
StopTriggerUnasked == ~isStoppingManually

\* if (shouldStopRef.current && !isStoppingManually.current)
StopTrigger == shouldStopRef /\ ~isStoppingManually

AnimateCosmetic(dt) ==
  LET se == IF StopTrigger THEN 0 ELSE Min(stopElapsed + dt, StopDuration)
  IN IF isStoppingManually \/ StopTrigger
     THEN IF se < StopDuration THEN StopStep(se, dt) ELSE StopDone
     ELSE FreeStep(dt)

\* one requestAnimationFrame callback of animate
Animate(dt) ==
  /\ NoUserChange
  /\ animateFrames > 0
  /\ lastOp' = "other"
  /\ UNCHANGED << data, selectedGenres, filteredData, prevFilteredLength,
                  isWheelTransitioning, transitionTimers, spinSpeed,
                  filterChanges, tonearmAngle >>
  /\ IF ~isSpinning
     THEN /\ UNCHANGED << isModalOpen, modalTimers, shouldResetTonearm,
                  mustSpin, selectedAlbum, isManualStop, isRouletteMode,
                          prizeNumber, lastCallback, isStoppingManually,
                          stopElapsed, lastWriter >>
          /\ NoDetails
          /\ WheelRender([Cur EXCEPT !.animateFrames = animateFrames - 1])
     ELSE IF isRouletteModeRef THEN AnimateRoulette(dt)
          ELSE AnimateCosmetic(dt)

\* one requestAnimationFrame callback of animateFilterSpin
AnimateFilterSpin(i, dt) ==
  /\ i \in DOMAIN nudges
  /\ lastOp' = "other"
  /\ lastWriter' = "nudge"
  /\ UNCHANGED parentVars
  /\ UNCHANGED << filterChanges, isStoppingManually, stopElapsed, tonearmAngle,
                  lastCallback >>
  /\ LET n == nudges[i]
         e == Min(n.elapsed + dt, NudgeDuration)
     IN IF e < NudgeDuration
        THEN WheelRender([Cur EXCEPT
               !.rotation = EaseOutCubic(n.startRot, n.targetRot, e,
                                         NudgeDuration),
               !.nudges = [nudges EXCEPT ![i].elapsed = e]])
        ELSE WheelRender([Cur EXCEPT !.rotation = n.targetRot,
                                     !.nudges = RemoveAt(nudges, i)])

\* one requestAnimationFrame callback of animateTonearmDown
AnimateTonearmDown(dt) ==
  /\ tonearmDownFrames > 0
  /\ lastOp' = "other"
  /\ UNCHANGED parentVars
  /\ UNCHANGED << filterChanges, isStoppingManually, stopElapsed, lastCallback,
                  lastWriter >>
  /\ LET e == Min(tonearmElapsed + dt, DownDuration) IN
     IF e < DownDuration
     THEN /\ tonearmAngle' = EaseOutCubic(RestAngle, PlayingAngle, e,
                                          DownDuration)
          /\ WheelRender([Cur EXCEPT !.tonearmElapsed = e])
     ELSE /\ tonearmAngle' = PlayingAngle
          /\ WheelRender([Cur EXCEPT !.tonearmElapsed = e,
                                     !.tonearmAnimating = FALSE,
                                     !.tonearmDownFrames = tonearmDownFrames - 1])

\* one requestAnimationFrame callback of animateBack
AnimateBack(dt) ==
  /\ tonearmBackFrames > 0
  /\ lastOp' = "other"
  /\ UNCHANGED parentVars
  /\ UNCHANGED << filterChanges, isStoppingManually, stopElapsed, lastCallback,
                  lastWriter >>
  /\ LET e == Min(tonearmElapsed + dt, BackDuration) IN
     IF e < BackDuration
     THEN /\ tonearmAngle' = EaseOutQuad(PlayingAngle, RestAngle, e,
                                         BackDuration)
          /\ WheelRender([Cur EXCEPT !.tonearmElapsed = e])
     ELSE /\ tonearmAngle' = RestAngle
          /\ WheelRender([Cur EXCEPT !.tonearmElapsed = e,
                                     !.tonearmAnimating = FALSE,
                                     !.tonearmBackFrames = tonearmBackFrames - 1])

(* ----------------------- the result dialog ---------------------------- *)
\* what the dialog's handlers leave alone
NoSpinChange ==
  UNCHANGED << data, selectedGenres, filteredData, prevFilteredLength,
               mustSpin, isRouletteMode, prizeNumber, isManualStop,
               isWheelTransitioning, transitionTimers, spinSpeed,
               filterChanges >>

\* setTimeout(() => setIsModalOpen(true), ...) of a completion handler
OpenModalTimeout ==
  /\ NoDetails /\ NoUserChange
  /\ modalTimers > 0
  /\ lastOp' = "other"
  /\ modalTimers' = modalTimers - 1
  /\ isModalOpen' = TRUE
  /\ UNCHANGED << selectedAlbum, shouldResetTonearm >>
  /\ NoSpinChange
  /\ NoFrame
  /\ Render

\* an album of the collection list is clicked
CollectionItemClick ==
  /\ NoUserChange
  /\ Mounted
  /\ lastOp' = "other"
  /\ \E i \in DOMAIN data :
       /\ selectedAlbum' = data[i]
       /\ detailRequests' = detailRequests \cup {data[i]}
  /\ isLoadingDetails' = TRUE
  /\ UNCHANGED selectedAlbumDetails
  /\ isModalOpen' = TRUE
  /\ UNCHANGED << modalTimers, shouldResetTonearm >>
  /\ NoSpinChange
  /\ NoFrame
  /\ WheelRender(Cur)

\* onClose of the dialog: its close button or its overlay
ModalClose ==
  /\ NoDetails /\ NoUserChange
  /\ isModalOpen
  /\ lastOp' = "other"
  /\ isModalOpen' = FALSE
  /\ shouldResetTonearm' = TRUE
  /\ UNCHANGED << selectedAlbum, modalTimers >>
  /\ NoSpinChange
  /\ NoFrame
  /\ WheelRender(Cur)

\* Escape: handleKeyPress
PressEscape ==
  /\ NoDetails /\ NoUserChange
  /\ Mounted
  /\ lastOp' = "other"
  /\ IF isModalOpen
     THEN /\ isModalOpen' = FALSE
          /\ shouldResetTonearm' = TRUE
     ELSE UNCHANGED << isModalOpen, shouldResetTonearm >>
  /\ UNCHANGED << selectedAlbum, modalTimers >>
  /\ NoSpinChange
  /\ NoFrame
  /\ WheelRender(Cur)

\* the URL of a popstate event without a username
NoUser == ""

\* popstate: the browser's back or forward button
handlePopState(urlUsername) ==
  /\ userChanges < MaxUserChanges
  /\ urlUsername # username
  /\ urlUsername = NoUser => isConfigured
  /\ userChanges' = userChanges + 1
  /\ lastOp' = "other"
  /\ IF urlUsername # NoUser
     THEN /\ username' = urlUsername
          /\ isConfigured' = TRUE
          /\ loading' = TRUE
          /\ collectionRequests' = collectionRequests \cup {urlUsername}
     ELSE /\ isConfigured' = FALSE
          /\ UNCHANGED << username, loading, collectionRequests >>
  /\ UNCHANGED error
  /\ UNCHANGED << selectedAlbum, isModalOpen, modalTimers,
                  shouldResetTonearm >>
  /\ NoSpinChange
  /\ NoDetails
  /\ UNCHANGED << lastCallback, lastWriter >>
  /\ WheelAfter

\* the button that leads to the username form
handleChangeUser ==
  /\ userChanges < MaxUserChanges
  /\ isConfigured /\ ~loading
  /\ userChanges' = userChanges + 1
  /\ lastOp' = "other"
  /\ isConfigured' = FALSE
  /\ error' = FALSE
  /\ data' = << >>
  /\ selectedGenres' = {}
  /\ FilterEffect(<< >>, {})
  /\ UNCHANGED << username, loading, collectionRequests >>
  /\ UNCHANGED << selectedAlbum, isModalOpen, modalTimers,
                  shouldResetTonearm >>
  /\ UNCHANGED << mustSpin, isRouletteMode, prizeNumber, isManualStop,
                  spinSpeed, filterChanges >>
  /\ NoDetails
  /\ UNCHANGED << lastCallback, lastWriter >>
  /\ WheelAfter

\* the username form is submitted
handleUsernameSubmit(newUsername) ==
  /\ userChanges < MaxUserChanges
  /\ ~isConfigured
  /\ userChanges' = userChanges + 1
  /\ lastOp' = "other"
  /\ username' = newUsername
  /\ isConfigured' = TRUE
  /\ error' = FALSE
  /\ loading' = TRUE
  /\ collectionRequests' = collectionRequests \cup {newUsername}
  /\ UNCHANGED << selectedAlbum, isModalOpen, modalTimers,
                  shouldResetTonearm >>
  /\ NoSpinChange
  /\ NoDetails
  /\ UNCHANGED << lastCallback, lastWriter >>
  /\ WheelAfter

\* the animate loop of an unmounted wheel reaches its completion branch
OrphanComplete(i) ==
  LET orphan == orphans[i] IN
  /\ i \in DOMAIN orphans
  /\ orphan.roulette \/ orphan.stopping
  /\ orphans' = RemoveAt(orphans, i)
  /\ lastOp' = "other"
  /\ UNCHANGED << username, isConfigured, loading, error, collectionRequests,
                  userChanges >>
  /\ UNCHANGED << data, selectedGenres, filteredData, prevFilteredLength,
                  isWheelTransitioning, transitionTimers, spinSpeed,
                  filterChanges >>
  /\ IF orphan.roulette
     THEN /\ NoDetails
          /\ handleRouletteCompleteOf(orphan.closure)
          /\ lastCallback' = [NoCallback EXCEPT !.name = "rouletteComplete",
                                !.sawRotation = orphan.closure.targetRotation,
                                !.segments = Len(filteredData),
                                !.unmounted = TRUE]
     ELSE IF Len(orphan.closure.data) > 0
     THEN LET stoppedIndex == StoppedIndex(orphan.closure.rotation,
                                           Len(orphan.closure.data)) IN
          /\ handleStopCompleteOf(orphan.closure, stoppedIndex)
          /\ lastCallback' = [NoCallback EXCEPT !.name = "stopComplete",
                                !.index = stoppedIndex,
                                !.segments = Len(filteredData),
                                !.unmounted = TRUE]
     ELSE /\ UNCHANGED << lastCallback, mustSpin, isManualStop,
                          isRouletteMode, isModalOpen, modalTimers,
                          shouldResetTonearm, selectedAlbum, prizeNumber >>
          /\ NoDetails
  /\ UNCHANGED << isStoppingManually, stopElapsed, tonearmAngle,
                  lastWriter >>
  /\ Render

\* what a response to fetchReleaseDetails leaves alone
NoSelectionChange ==
  /\ UNCHANGED << selectedAlbum, isModalOpen, modalTimers,
                  shouldResetTonearm >>
  /\ NoSpinChange
  /\ NoUserChange

\* fetchReleaseDetails(album) has resolved: the .then of its caller
DetailsResponse(album) ==
  /\ album \in detailRequests
  /\ detailRequests' = detailRequests \ {album}
  /\ lastOp' = "other"
  /\ selectedAlbumDetails' = album
  /\ isLoadingDetails' = FALSE
  /\ NoSelectionChange
  /\ NoFrame
  /\ Render

\* fetchReleaseDetails(album) has thrown: the .catch of its caller
DetailsFailure(album) ==
  /\ album \in detailRequests
  /\ detailRequests' = detailRequests \ {album}
  /\ lastOp' = "other"
  /\ isLoadingDetails' = FALSE
  /\ UNCHANGED selectedAlbumDetails
  /\ NoSelectionChange
  /\ NoFrame
  /\ Render

\* the container changes size: updateSize, a new getTonearmAngles
Resize ==
  /\ Mounted
  /\ lastOp' = "other"
  /\ UNCHANGED parentVars
  /\ UNCHANGED filterChanges
  /\ NoFrame
  /\ WheelRender([Cur EXCEPT !.resized = TRUE])

Next ==
  \/ LoadCollection
  \/ \E genre \in Genres : handleGenreToggle(genre)
  \/ TransitionTimeout
  \/ ClickStart
  \/ ClickWheel
  \/ PressSpace
  \/ ClickStop
  \/ ClickSpeed
  \/ Animate(FrameGap)
  \/ \E i \in DOMAIN nudges : AnimateFilterSpin(i, FrameGap)

\* the spin and nudge machine; the tonearm, which no other loop reads, rests
Spec == Init /\ [][Next]_vars

(* --------------------------- another user ----------------------------- *)
\* Back or Forward leads to the page of another user while the wheel is
\* idle: handlePopState, then loadCollection; the wheel is unmounted while
\* the collection loads and mounted again when it is there; the selected
\* genres stay
SwitchUser ==
  /\ data = Collection
  /\ ~mustSpin /\ animateFrames = 0 /\ nudges = << >> /\ ~tonearmAnimating
  /\ transitionTimers = 0 /\ modalTimers = 0 /\ ~isModalOpen
  /\ lastOp' = "other"
  /\ username' = OtherUser
  /\ UNCHANGED << isConfigured, loading, error, collectionRequests, orphans,
                  userChanges >>
  /\ NoDetails
  /\ data' = OtherCollection
  /\ LET newFilteredData == FilterData(OtherCollection, selectedGenres) IN
     /\ IF prevFilteredLength # 0 /\ prevFilteredLength # Len(newFilteredData)
        THEN /\ isWheelTransitioning' = TRUE
             /\ transitionTimers' = transitionTimers + 1
        ELSE UNCHANGED << isWheelTransitioning, transitionTimers >>
     /\ prevFilteredLength' = Len(newFilteredData)
     /\ filteredData' = newFilteredData
  /\ UNCHANGED << selectedGenres, mustSpin, isRouletteMode, prizeNumber,
                  isManualStop, selectedAlbum, spinSpeed, isModalOpen,
                  modalTimers, shouldResetTonearm, filterChanges >>
  /\ isStoppingManually' = FALSE
  /\ stopElapsed' = 0
  /\ tonearmAngle' = RestAngle
  /\ UNCHANGED << lastCallback, lastWriter >>
  /\ WheelRender(MountCur)

\* the filter panel, START and STOP
NextFilter ==
  \/ LoadCollection
  \/ \E genre \in Genres :
       filterChanges < MaxQuickToggles /\ GenreToggle(genre)
  \/ TransitionTimeout
  \/ ClickStart
  \/ ClickStop
  \/ Animate(FrameGap)
  \/ \E i \in DOMAIN nudges : AnimateFilterSpin(i, FrameGap)

SpecFilter == Init /\ [][NextFilter]_vars

NextUsers == Next \/ SwitchUser
SpecUsers == Init /\ [][NextUsers]_vars

\* the first frame of animateBack comes within the tick of its request
BackFrameGaps == {0, FrameGap}

\* the spin machine with the tonearm and the result dialog; the genre filter
\* and the speed button, which the tonearm does not depend on, rest
NextTonearm ==
  \/ LoadCollection
  \/ ClickStart
  \/ ClickWheel
  \/ PressSpace
  \/ ClickStop
  \/ Animate(FrameGap)
  \/ AnimateTonearmDown(FrameGap)
  \/ \E dt \in BackFrameGaps : AnimateBack(dt)
  \/ OpenModalTimeout
  \/ CollectionItemClick
  \/ ModalClose
  \/ PressEscape
  \/ Resize

SpecTonearm == Init /\ [][NextTonearm]_vars

\* the selection of an album and the requests for its details: a spin in
\* roulette mode, the collection list and the dialog
NextDetails ==
  \/ LoadCollection
  \/ ClickWheel
  \/ Animate(FrameGap)
  \/ OpenModalTimeout
  \/ CollectionItemClick
  \/ ModalClose
  \/ \E album \in detailRequests : DetailsResponse(album)
  \/ \E album \in detailRequests : DetailsFailure(album)

SpecDetails == Init /\ [][NextDetails]_vars

\* the username, the requests for collections and what they do to a wheel
\* that spins
NextLoad ==
  \/ \E user \in collectionRequests : CollectionResponse(user)
  \/ \E user \in collectionRequests : CollectionFailure(user)
  \/ \E urlUsername \in Users \cup {NoUser} : handlePopState(urlUsername)
  \/ handleChangeUser
  \/ \E newUsername \in Users : handleUsernameSubmit(newUsername)
  \/ ClickStart
  \/ ClickWheel
  \/ ClickStop
  \/ Animate(FrameGap)
  \/ \E i \in DOMAIN orphans : OrphanComplete(i)

SpecLoad == Init /\ [][NextLoad]_vars

\* requestAnimationFrame runs every callback it was given: a loop that has a
\* frame scheduled gets it
NextSpin ==
  \/ LoadCollection
  \/ ClickStart
  \/ ClickWheel
  \/ PressSpace
  \/ ClickStop
  \/ ClickSpeed
  \/ Animate(FrameGap)

SpecFair == Init /\ [][NextSpin]_vars /\ WF_vars(Animate(FrameGap))

SpecTonearmFair ==
  /\ SpecTonearm
  /\ WF_vars(Animate(FrameGap))
  /\ WF_vars(AnimateTonearmDown(FrameGap))
  /\ WF_vars(AnimateBack(FrameGap))

(* ------------------------ the targeting probe ------------------------- *)
StartSamples ==
  {k * (TwoPi \div 12) + j : k \in 0..MaxStartSteps, j \in {0, 1}}
ProbeExtraSpins == {3 * TwoPi, 3 * TwoPi + TwoPi \div 3, 5 * TwoPi - 1}

InitProbe ==
  /\ InitProgram /\ hit = NoHit
  /\ \E start \in StartSamples, n \in 1..MaxSegments,
        extraSpins \in ProbeExtraSpins :
       \E prize \in 0..(n - 1) :
         probe = [NoProbe EXCEPT !.start = start, !.segments = n,
                                 !.prize = prize, !.extraSpins = extraSpins]

\* the target of a determinate spin, then the index the stop rule reads
\* from it
ProbeTarget ==
  /\ ~probe.done
  /\ LET target == TargetRotation(probe.start, probe.prize, probe.segments,
                                  probe.extraSpins)
     IN probe' = [probe EXCEPT !.target = target,
                               !.index = StoppedIndex(target, probe.segments),
                               !.done = TRUE]
  /\ UNCHANGED << parentVars, wheelVars, lastOp, spinCount, filterChanges,
                  spinLog, lastCallback, lastWriter, resetAtRest, hit >>

SpecProbe == InitProbe /\ [][ProbeTarget]_vars

(* ------------------------- the hit-test probe ------------------------- *)
\* release points: centres and rims of the buttons, points on and off the
\* disc, points off everything
HitXs == {HitCenterX, 500, SpeedButtonX - ButtonRadius, SpeedButtonX,
          StopButtonX, StartButtonX, StartButtonX + ButtonRadius + 2}
HitYs == {HitCenterY, 560, ButtonY, ButtonY + ButtonRadius + 2}
\* the border the caller passes, and one that makes the disc reach the buttons
BorderWidths == {OuterBorderWidth, 0 - 250}

InitHit ==
  /\ InitProgram /\ probe = NoProbe
  /\ \E x \in HitXs, y \in HitYs, border \in BorderWidths,
        spinning \in BOOLEAN, stopping \in BOOLEAN :
       /\ stopping => spinning
       /\ hit = [NoHit EXCEPT !.x = x, !.y = y, !.border = border,
                              !.spinning = spinning, !.stopping = stopping]

\* one release event on the canvas
HitRelease ==
  /\ ~hit.done
  /\ hit' = [hit EXCEPT !.intents = CanvasIntents(hit.x, hit.y, hit.border,
                                                  hit.spinning, hit.stopping),
                        !.done = TRUE]
  /\ UNCHANGED << parentVars, wheelVars, lastOp, spinCount, filterChanges,
                  spinLog, lastCallback, lastWriter, resetAtRest, probe >>

SpecHit == InitHit /\ [][HitRelease]_vars

(* ------------------------------ claims -------------------------------- *)

\* C1: at most one spin session is active at a time.  The animate loop has
\* at most one frame scheduled, and no step taken while a session is active
\* (a start request from the disc, Space or START, or a render that re-runs
\* the spin effect with mustStartSpinning true) starts a session or changes
\* the start rotation, the target, the duration or the mode of the session.
C1_SingleSession ==
  /\ [](animateFrames <= 1)
  /\ [][isSpinning =>
          /\ spinCount' = spinCount
          /\ startRotation' = startRotation
          /\ closure' = closure
          /\ spinLog'.mode = spinLog.mode
          /\ animateFrames' <= animateFrames]_vars

\* a start request has arrived while a determinate session was under way
C1_Witness ==
  isSpinning /\ lastOp = "start" /\ elapsed > 0 /\ animateFrames = 1

\* C2: onRouletteComplete is invoked exactly once per determinate session:
\* not while the session runs, once when the duration has elapsed, and not
\* again afterwards.
C2_RouletteCompleteOnce ==
  /\ spinLog.rouletteCompletes <= 1
  /\ spinLog.mode # "roulette" => spinLog.rouletteCompletes = 0
  /\ (spinLog.mode = "roulette" /\ isSpinning) =>
        spinLog.rouletteCompletes = 0 /\ elapsed < closure.spinDuration
  /\ (spinLog.mode = "roulette" /\ ~isSpinning) =>
        spinLog.rouletteCompletes = 1 /\ elapsed >= closure.spinDuration

\* the second determinate session has completed
C2_Witness ==
  /\ spinLog.mode = "roulette" /\ ~isSpinning /\ spinCount = 2
  /\ spinLog.rouletteCompletes = 1

\* C3: when a determinate spin completes, the rotation has been set to the
\* target computed at the start and the session flag is clear when
\* onRouletteComplete is entered; from then on the loop has no frame
\* scheduled and the rotation it wrote last is the target.
C3_SnapBeforeCallback ==
  (spinLog.mode = "roulette" /\ ~isSpinning) =>
     /\ lastCallback.name = "rouletteComplete"
     /\ ~lastCallback.sawSpinning
     /\ lastCallback.sawRotation = closure.targetRotation
     /\ animateFrames = 0
     /\ (lastWriter = "animate" => rotation = closure.targetRotation)

\* a determinate spin has completed and the wheel rests on its target
C3_Witness ==
  /\ spinLog.mode = "roulette" /\ ~isSpinning
  /\ lastWriter = "animate" /\ rotation = closure.targetRotation
  /\ rotation > startRotation

\* C4: index round trip.  For every segment count, target index and start
\* rotation, the index-resolution rule applied to the target rotation of a
\* determinate spin gives the target index.
C4_IndexRoundTrip == probe.done => probe.index = probe.prize

\* the last segment of the largest wheel, from a wheel that has turned
C4_Witness ==
  /\ probe.done /\ probe.segments = MaxSegments
  /\ probe.prize = MaxSegments - 1 /\ probe.start > TwoPi \div 2

\* C5: the index passed to onStopComplete is the index-resolution rule
\* applied to the rotation at which the wheel has come to rest.
C5_StopIndexAtRest ==
  lastCallback.name = "stopComplete" =>
    lastCallback.index =
      StoppedIndex(lastCallback.sawRotation, lastCallback.segments)

\* C6: onStopComplete fires once per continuous session, only for a session
\* on which a stop was requested, at the end of the deceleration window,
\* and it leaves the wheel idle with both flags clear.
C6_StopCompleteOnce ==
  /\ spinLog.stopCompletes <= 1
  /\ isSpinning => spinLog.stopCompletes = 0
  /\ spinLog.stopCompletes = 1 =>
       /\ spinLog.mode = "cosmetic" /\ spinLog.stopRequested
       /\ ~isSpinning /\ ~isStoppingManually /\ ~mustSpin
       /\ stopElapsed >= StopDuration
  /\ (spinLog.mode = "cosmetic" /\ ~isSpinning) => spinLog.stopCompletes = 1
  /\ isStoppingManually => spinLog.stopRequested

\* a continuous session has been stopped
C6_Witness ==
  /\ spinLog.mode = "cosmetic" /\ spinLog.stopCompletes = 1
  /\ lastCallback.name = "stopComplete" /\ rotation > startRotation

\* C7: continuity.  A spin session and a nudge start from the rotation the
\* wheel is at, the one the previous animation left, and starting them
\* leaves the rotation as it is.
C7_Continuity ==
  [][/\ spinCount' # spinCount =>
          /\ startRotation' = rotation
          /\ closure'.rotation = rotation
          /\ rotation' = rotation
     /\ Len(nudges') > Len(nudges) =>
          /\ nudges'[Len(nudges')].startRot = rotation
          /\ rotation' = rotation]_vars

\* the second session starts where the first one left the wheel
C7_Witness ==
  /\ spinCount = 2 /\ isSpinning /\ startRotation > 0
  /\ rotation = startRotation /\ elapsed = 0

\* C8: the index delivered by onStopComplete lies in [0, N) for the segment
\* count N in effect when the callback fires.
C8_IndexInRange ==
  lastCallback.name = "stopComplete" =>
    lastCallback.index >= 0 /\ lastCallback.index < lastCallback.segments

\* C9: no spin session starts while a filter nudge is running.
C9_NoStartDuringNudge ==
  [][nudges # << >> => spinCount' = spinCount]_vars

\* C10: at most one of the loops that write the rotation has a frame
\* scheduled.
C10_OneRotationWriter == animateFrames + Len(nudges) <= 1

\* C11: tonearm single trigger.  Within one spin session the engage loop is
\* started at most once, and it is started only by the step that starts the
\* session, whatever frames and renders follow.
C11_SingleEngage ==
  /\ [](spinLog.engages <= 1)
  /\ [][tonearmDownFrames' > tonearmDownFrames =>
          spinCount' = spinCount + 1 /\ spinLog'.engages = 1]_vars

\* the engage loop of the session has finished and the session goes on
C11_Witness ==
  /\ isSpinning /\ spinLog.engages = 1 /\ ~tonearmAnimating
  /\ tonearmAngle = PlayingAngle /\ elapsed > 0

\* C12: idempotent reset.  After a reset signalled while the tonearm rests
\* and no tonearm loop runs, the tonearm angle stays the rest angle and no
\* disengage loop has a frame scheduled.
C12_ResetAtRestIdle ==
  resetAtRest => tonearmAngle = RestAngle /\ tonearmBackFrames = 0

C14_OneIntent ==
  (hit.done /\ hit.border = OuterBorderWidth) =>
    /\ Len(hit.intents) <= 1
    /\ hit.intents =
         IF InSpeed(hit.x, hit.y)
         THEN IF hit.spinning THEN << >> ELSE << "speed" >>
         ELSE IF InStop(hit.x, hit.y)
         THEN IF hit.spinning /\ ~hit.stopping THEN << "stop" >> ELSE << >>
         ELSE IF InStart(hit.x, hit.y)
         THEN IF hit.spinning THEN << >> ELSE << "start" >>
         ELSE IF InDisc(hit.x, hit.y, hit.border)
         THEN IF hit.spinning THEN << >> ELSE << "wheel" >>
         ELSE << >>

\* a release on the disc during a spin has invoked nothing
C14_Witness ==
  /\ hit.done /\ hit.border = OuterBorderWidth /\ hit.spinning
  /\ InDisc(hit.x, hit.y, hit.border) /\ hit.intents = << >>

\* C15: the speed setting keeps its value while a spin is in progress; it
\* changes only by a hit on the speed button while no spin is in progress,
\* which toggles it between 33 and 45.
C15_SpeedOnlyIdle ==
  /\ [](spinSpeed \in {"33", "45"})
  /\ [][mustSpin => spinSpeed' = spinSpeed]_vars
  /\ [][spinSpeed' # spinSpeed =>
          /\ ClickSpeed /\ ~mustSpin /\ ~mustSpin'
          /\ spinSpeed' = IF spinSpeed = "33" THEN "45" ELSE "33"]_vars

\* a spin at 45 rpm is under way
C15_Witness ==
  /\ spinSpeed = "45" /\ spinSpeedRef = "45" /\ mustSpin /\ isSpinning
  /\ rotation > startRotation

\* C16: a filter nudge is cosmetic.  It starts only when no spin session is
\* active, from the rotation of that moment and towards one 30 to 120
\* degrees further; none of its frames invokes a completion callback or
\* changes the spinning and stopping flags or the caller's spin and
\* selection state; its last frame leaves the rotation at its target.
C16_NudgeCosmetic ==
  /\ [][Len(nudges') > Len(nudges) =>
          LET n == nudges'[Len(nudges')] IN
          /\ ~isSpinning /\ ~isSpinning'
          /\ n.startRot = rotation
          /\ n.targetRot - n.startRot >= TwoPi \div 12
          /\ n.targetRot - n.startRot <= TwoPi \div 3]_vars
  /\ [][(nudges' # nudges /\ Len(nudges') <= Len(nudges)) =>
          /\ UNCHANGED << lastCallback, isSpinning, isStoppingManually,
                          spinCount, spinLog, mustSpin, isRouletteMode,
                          isManualStop, prizeNumber, selectedAlbum,
                          modalTimers >>
          /\ Len(nudges') < Len(nudges) =>
               \E i \in DOMAIN nudges :
                 /\ nudges' = RemoveAt(nudges, i)
                 /\ rotation' = nudges[i].targetRot
                 /\ rotation' = nudges[i].startRot + TwoPi \div 4]_vars

\* a nudge on an idle wheel has run to its end
C16_Witness ==
  /\ filterChanges = 1 /\ nudges = << >> /\ lastWriter = "nudge"
  /\ spinCount = 0 /\ rotation = TwoPi \div 4

\* C17: with zero segments a start request (START, the disc or Space) is a
\* silent no-op: it leaves mustSpin, the session, the rotation, the tonearm
\* and the callbacks delivered as they are.
C17_EmptyStartNoOp ==
  /\ []((Mounted /\ Len(filteredData) = 0) => ~mustSpin /\ ~isSpinning)
  /\ [][(Mounted /\ Len(filteredData) = 0 /\ lastOp' = "start") =>
          UNCHANGED << mustSpin, isRouletteMode, prizeNumber, isSpinning,
                       spinCount, spinLog, rotation, animateFrames,
                       tonearmAngle, tonearmAnimating, tonearmDownFrames,
                       lastCallback, modalTimers >>]_vars

\* a start request has arrived at a wheel without segments
C17_Witness ==
  Mounted /\ Len(filteredData) = 0 /\ lastOp = "start" /\ ~mustSpin

\* C18: under fair frame scheduling a determinate session returns to idle,
\* and a continuous session returns to idle once a stop has been requested;
\* idle comes with mustSpin false.
C18_Terminates ==
  /\ (isSpinning /\ spinLog.mode = "roulette") ~> (~isSpinning /\ ~mustSpin)
  /\ (isSpinning /\ spinLog.mode = "cosmetic" /\ spinLog.stopRequested)
        ~> (~isSpinning /\ ~mustSpin)

\* the second session, a continuous one, has been stopped and is idle
C18_Witness ==
  /\ spinCount = 2 /\ ~isSpinning /\ ~mustSpin /\ animateFrames = 0
  /\ spinLog.mode = "cosmetic" /\ spinLog.stopRequested

\* C19: after the dialog is dismissed the tonearm eventually is at its rest
\* angle, and it stays there until the next spin starts.
C19_ReturnsToRest ==
  /\ shouldResetTonearm ~> (tonearmAngle = RestAngle \/ ~shouldResetTonearm)
  /\ [][(shouldResetTonearm /\ shouldResetTonearm'
            /\ tonearmAngle = RestAngle) => tonearmAngle' = RestAngle]_vars

\* C20: at most one tonearm loop has a frame scheduled, the flag
\* tonearmAnimating is set exactly while one has, and no loop is started
\* while the flag is set.
C20_OneTonearmLoop ==
  /\ [](tonearmDownFrames + tonearmBackFrames <= 1)
  /\ [](tonearmAnimating <=> tonearmDownFrames + tonearmBackFrames = 1)
  /\ [][tonearmAnimating =>
          /\ tonearmDownFrames' <= tonearmDownFrames
          /\ tonearmBackFrames' <= tonearmBackFrames]_vars

\* a reset was signalled while the engage loop runs and started nothing
C20_Witness ==
  /\ shouldResetTonearm /\ tonearmDownFrames = 1 /\ tonearmBackFrames = 0
  /\ tonearmAngle # RestAngle

\* C21: the rotation never decreases, whatever loops write it and however
\* they overlap.
C21_RotationMonotone == [][rotation' >= rotation]_vars

\* C26: while the result dialog is open an album is selected; a delayed
\* opening does not open the dialog on a selection a new spin has cleared.
C26_ModalHasAlbum == isModalOpen => selectedAlbum # 0

\* C27: every session starts the engage loop of the tonearm, also when it
\* starts while the tonearm returns to rest, and the tonearm then reaches
\* the playing angle.
C27_SessionEngages ==
  /\ [](isSpinning => spinLog.engages = 1)
  /\ isSpinning ~> (tonearmAngle = PlayingAngle)

\* C28: the stop flags agree with the session.  In the wheel
\* isStoppingManually implies isSpinning; in the caller isManualStop implies
\* mustSpin and a continuous spin.
C28_StopFlags ==
  /\ isStoppingManually => isSpinning
  /\ isManualStop => (mustSpin /\ ~isRouletteMode)

\* a requested stop is decelerating the wheel
C28_Witness ==
  /\ isManualStop /\ mustSpin /\ isStoppingManually /\ isSpinning
  /\ stopElapsed > 0

\* C22: the target of a determinate spin to prize P of N segments is at
\* least the start rotation plus extraSpins and less than one turn more, it
\* is congruent modulo a full turn to needleAngle - (P + 1/2) * arcSize, and
\* with extraSpins in [3, 5) turns the wheel advances by at least 3 and
\* fewer than 6 turns.
C22_TargetBounds ==
  probe.done =>
    /\ probe.target >= probe.start + probe.extraSpins
    /\ probe.target < probe.start + probe.extraSpins + TwoPi
    /\ (probe.target - NeedleAngle
          + ((2 * probe.prize + 1) * TwoPi) \div (2 * probe.segments))
         % TwoPi = 0
    /\ probe.target - probe.start >= 3 * TwoPi
    /\ probe.target - probe.start < 6 * TwoPi

\* a target more than five turns ahead of a start rotation that is not zero
C22_Witness ==
  /\ probe.done /\ probe.start > TwoPi /\ probe.prize > 0
  /\ probe.target - probe.start > 5 * TwoPi

\* C23: a genre-filter change that alters the number of segments while no
\* spin is requested or running sets the filter-transition signal and
\* starts exactly one nudge, whatever the counts before and after are.
C23_NudgePerChange ==
  [][(data' = data /\ Len(filteredData') # Len(filteredData)
        /\ ~mustSpin /\ ~isSpinning) =>
       /\ isWheelTransitioning'
       /\ Len(nudges') = Len(nudges) + 1]_vars

\* C29: the disc of the hit test is the disc as drawn, here with the border
\* width the caller passes.  The wheel test
\* accepts a point exactly when the point lies in the drawn disc, so a
\* release on an idle wheel outside every button invokes onWheelClick
\* exactly when it lies in the drawn disc.
C29_HitDiscIsDrawnDisc ==
  (hit.done /\ hit.border = OuterBorderWidth) =>
    /\ InDisc(hit.x, hit.y, hit.border)
         <=> InDrawnDisc(hit.x, hit.y, hit.border)
    /\ (~hit.spinning /\ ~InSpeed(hit.x, hit.y) /\ ~InStop(hit.x, hit.y)
          /\ ~InStart(hit.x, hit.y)) =>
         (hit.intents = << "wheel" >>
            <=> InDrawnDisc(hit.x, hit.y, hit.border))

\* C25: whenever album details are set and no detail request is marked
\* loading, the details are those of the selected album: a response to a
\* request made for an earlier selection never replaces them
C25_DetailsOfSelected ==
  (selectedAlbumDetails # 0 /\ ~isLoadingDetails /\ selectedAlbum # 0)
    => selectedAlbumDetails = selectedAlbum

\* C30: once no collection request is in flight, loading is false and the
\* collection shown, with the wheel segments derived from it, is the one
\* of the current username
C30_CollectionOfUser ==
  collectionRequests = {} =>
    /\ ~loading
    /\ (isConfigured /\ ~error) =>
         /\ data = CollectionOf(username)
         /\ filteredData = FilterData(CollectionOf(username), selectedGenres)

\* C24: a session starts only in the step of a start request of the user
\* (wheel click, Space or START), never in a step that mounts the wheel,
\* and no completion callback comes from the loop of an unmounted wheel
C24_SessionPerIntent ==
  /\ [][spinCount' = spinCount + 1 => lastOp' = "start"]_vars
  /\ [](~lastCallback.unmounted)

====
